---------------------------- MODULE Spec2Model ----------------------------
(***************************************************************************)
(* The middlewares of pygarl/middlewares.py as a state machine.            *)
(*                                                                         *)
(* One middleware object is constructed (Init picks its class and its      *)
(* constructor arguments) and process_sample is then called on it with a   *)
(* sequence of samples.  The object's fields are the state; calls, states  *)
(* and events are history variables recording what went in, what the       *)
(* fields were after each call, and what came out (returned value, raised  *)
(* error, plot side effect) in the order it happened.                      *)
(*                                                                         *)
(* A sample is a record [data, gesture_id, gradient]: data is the sequence *)
(* of its rows (a row is an opaque number), gradient is the value its      *)
(* gradient() method returns (pygarl.base.Sample is an external            *)
(* collaborator, so the derivation of gradient from data is not modelled). *)
(* Optional values (Python's None) are sequences of length 0 or 1.         *)
(* The verbose flag only prints and is left out.                           *)
(***************************************************************************)
EXTENDS Integers, Sequences, FiniteSets, TLC

VARIABLES
    mw,                          \* class of the constructed middleware
    threshold,                   \* GradientThresholdMiddleware.threshold
    group,                       \* GradientThresholdMiddleware.group
    sample_group_delay,          \* GradientThresholdMiddleware.sample_group_delay
    buffer,                      \* GradientThresholdMiddleware.buffer
    sample_group_delay_counter,  \* GradientThresholdMiddleware.sample_group_delay_counter
    delay,                       \* DelayGrouperMiddleware.delay
    calls,                       \* history: the samples passed to process_sample
    states,                      \* history: <<buffer, counter>> at construction and after each call
    events                       \* history: returns, raises and plots, in order

vars == <<mw, threshold, group, sample_group_delay, buffer,
          sample_group_delay_counter, delay, calls, states, events>>

config == <<mw, threshold, group, sample_group_delay, delay>>

---------------------------------------------------------------------------
(* Bounds of the model *)

\* number of process_sample calls explored
MaxCalls == 5

\* largest sample_group_delay a filter is constructed with
MaxDelay == 2

---------------------------------------------------------------------------
(* Values *)

None == <<>>

Some(x) == <<x>>

GradientThreshold == "GradientThresholdMiddleware"

DelayGrouper == "DelayGrouperMiddleware"

Plotter == "PlotterMiddleware"

\* Sample(data=..., gesture_id=...): the sample the filter constructs
Sample(data, gesture_id) == [data |-> data, gesture_id |-> gesture_id]

\* what a call does that its caller can observe
Return(value) == [ev |-> "return", value |-> value]

Raise(error) == [ev |-> "raise", error |-> error]

Plot(sample) == [ev |-> "plot", sample |-> sample]

\* The samples fed to the middlewares.  Magnitudes |mean(gradient)|:
\* 12, 13, 10, 9.5, 0.
Samples ==
    { [data |-> <<1>>,    gesture_id |-> Some("g1"), gradient |-> <<15, 9>>],
      [data |-> <<2, 3>>, gesture_id |-> Some("g2"), gradient |-> <<-30, 4>>],
      [data |-> <<1>>,    gesture_id |-> Some("g2"), gradient |-> <<10>>],
      [data |-> <<4>>,    gesture_id |-> Some("g1"), gradient |-> <<12, 7>>],
      [data |-> <<5, 6>>, gesture_id |-> None,       gradient |-> <<20, -20>>] }

Thresholds == {5, 10}

Delays == {100, 300}

---------------------------------------------------------------------------
(* GradientThresholdMiddleware *)

RECURSIVE SumSeq(_)
SumSeq(s) == IF s = <<>> THEN 0 ELSE Head(s) + SumSeq(Tail(s))

Abs(x) == IF x < 0 THEN -x ELSE x

\* fault variant: the threshold itself does not count as crossed (> for >=)
Crossed_Strict(sample) ==
    Abs(SumSeq(sample.gradient)) > threshold * Len(sample.gradient)

\* np.absolute(np.average(gradient)) >= self.threshold, on integers:
\* |sum / n| >= t  <=>  |sum| >= t * n  for n > 0
Crossed(sample) ==
    Abs(SumSeq(sample.gradient)) >= threshold * Len(sample.gradient)

\* fault variant: the tolerance test forgets self.group
Tolerated_NoGroupTest(sample) ==
    sample_group_delay_counter < sample_group_delay

\* fault variant: off by one in the tolerance test (<= for <)
Tolerated_OffByOne(sample) ==
    group /\ sample_group_delay_counter <= sample_group_delay

\* the else-branch test of line 87
Tolerated(sample) ==
    group /\ sample_group_delay_counter < sample_group_delay

is_allowed_to_pass(sample) ==
    IF Crossed(sample) THEN TRUE
    ELSE IF Tolerated(sample) THEN TRUE
    ELSE FALSE

\* fault variant: crossing the threshold does not reset the counter
NextCounter_NoReset(sample) ==
    IF Crossed(sample) THEN sample_group_delay_counter
    ELSE IF Tolerated(sample) THEN sample_group_delay_counter + 1
    ELSE sample_group_delay_counter

\* fault variant: a flush resets the counter
NextCounter_ResetOnFlush(sample) ==
    IF Crossed(sample) THEN 0
    ELSE IF Tolerated(sample) THEN sample_group_delay_counter + 1
    ELSE IF group /\ buffer # None THEN 0
    ELSE sample_group_delay_counter

\* sample_group_delay_counter after lines 81-91
NextCounter(sample) ==
    IF Crossed(sample) THEN 0
    ELSE IF Tolerated(sample) THEN sample_group_delay_counter + 1
    ELSE sample_group_delay_counter

\* fault variant: the buffer is overwritten instead of extended
add_sample_to_buffer_Overwrite(buf, sample) == Some(sample.data)

\* fault variant: the new data is put in front of the buffer
add_sample_to_buffer_Prepend(buf, sample) ==
    IF buf = None THEN Some(sample.data)
    ELSE Some(sample.data \o buf[1])

add_sample_to_buffer(buf, sample) ==
    IF buf = None THEN Some(sample.data)
    ELSE Some(buf[1] \o sample.data)

\* fault variant: the buffer survives the flush
delete_buffer_Keep(buf) == buf

delete_buffer(buf) == None

\* fault variant: the gesture id is not handed to the new sample
new_sample_NoGestureId(buf, sample) == Sample(buf[1], None)

\* fault variant: the flushing sample's data is put into the group
new_sample_WithCurrent(buf, sample) ==
    Sample(buf[1] \o sample.data, sample.gesture_id)

\* Sample(data=grouped_data, gesture_id=sample.gesture_id), lines 118-124
new_sample(buf, sample) == Sample(buf[1], sample.gesture_id)

\* self.buffer after lines 93-129
NextBuffer(sample) ==
    IF is_allowed_to_pass(sample)
    THEN IF ~group THEN buffer
         ELSE add_sample_to_buffer(buffer, sample)
    ELSE IF ~group THEN buffer
         ELSE IF buffer # None THEN delete_buffer(buffer)
              ELSE buffer

\* the value process_sample returns, lines 93-129
ReturnValue(sample) ==
    IF is_allowed_to_pass(sample)
    THEN IF ~group THEN Some(sample)
         ELSE None
    ELSE IF ~group THEN None
         ELSE IF buffer # None THEN Some(new_sample(buffer, sample))
              ELSE None

GradientThreshold_process_sample ==
    /\ mw = GradientThreshold
    /\ Len(calls) < MaxCalls
    /\ \E sample \in Samples :
        /\ sample_group_delay_counter' = NextCounter(sample)
        /\ buffer' = NextBuffer(sample)
        /\ calls' = Append(calls, sample)
        /\ events' = Append(events, Return(ReturnValue(sample)))
        /\ states' = Append(states, <<buffer', sample_group_delay_counter'>>)
    /\ UNCHANGED config

---------------------------------------------------------------------------
(* DelayGrouperMiddleware *)

\* fault variant: the stub passes the sample through
DelayGrouper_outcome_PassThrough(sample) == <<Return(Some(sample))>>

DelayGrouper_outcome(sample) == <<Raise("NotImplementedError")>>

DelayGrouper_process_sample ==
    /\ mw = DelayGrouper
    /\ Len(calls) < MaxCalls
    /\ \E sample \in Samples :
        /\ calls' = Append(calls, sample)
        /\ events' = events \o DelayGrouper_outcome(sample)
    /\ UNCHANGED <<config, buffer, sample_group_delay_counter, states>>

---------------------------------------------------------------------------
(* PlotterMiddleware *)

\* fault variant: the sample is returned without being plotted
Plotter_outcome_NoPlot(sample) == <<Return(Some(sample))>>

Plotter_outcome(sample) == <<Plot(sample), Return(Some(sample))>>

Plotter_process_sample ==
    /\ mw = Plotter
    /\ Len(calls) < MaxCalls
    /\ \E sample \in Samples :
        /\ calls' = Append(calls, sample)
        /\ events' = events \o Plotter_outcome(sample)
    /\ UNCHANGED <<config, buffer, sample_group_delay_counter, states>>

---------------------------------------------------------------------------
(* Construction and the specification *)

\* fields the constructed class does not have keep a fixed placeholder
Init ==
    /\ mw \in {GradientThreshold, DelayGrouper, Plotter}
    /\ IF mw = GradientThreshold
       THEN /\ threshold \in Thresholds
            /\ group \in BOOLEAN
            /\ sample_group_delay \in 0..MaxDelay
       ELSE /\ threshold = 0
            /\ group = FALSE
            /\ sample_group_delay = 0
    /\ IF mw = DelayGrouper THEN delay \in Delays ELSE delay = 0
    /\ buffer = None
    /\ sample_group_delay_counter = 0
    /\ calls = <<>>
    /\ states = << <<None, 0>> >>
    /\ events = <<>>

Next ==
    \/ GradientThreshold_process_sample
    \/ DelayGrouper_process_sample
    \/ Plotter_process_sample

Spec == Init /\ [][Next]_vars

---------------------------------------------------------------------------
(* Vocabulary of the properties *)

NCalls == Len(calls)

IsFilter == mw = GradientThreshold

Grouping == IsFilter /\ group

\* |mean(gradient(s))| >= threshold, stated on the sample's gradient
MagnitudeAtLeastThreshold(s) ==
    LET g == s.gradient
    IN  (IF SumSeq(g) < 0 THEN -SumSeq(g) ELSE SumSeq(g)) >= threshold * Len(g)

Above(i) == MagnitudeAtLeastThreshold(calls[i])

Below(i) == ~MagnitudeAtLeastThreshold(calls[i])

\* the filter's fields before and after its i-th call
BufferBefore(i) == states[i][1]

CounterBefore(i) == states[i][2]

BufferAfter(i) == states[i + 1][1]

CounterAfter(i) == states[i + 1][2]

\* the i-th call of the filter returned nothing / returned a grouped sample
ReturnedNothing(i) == events[i] = Return(None)

Flushed(i) ==
    /\ Grouping
    /\ events[i].ev = "return"
    /\ events[i].value # None

RECURSIVE ConcatData(_)
ConcatData(ss) ==
    IF ss = <<>> THEN <<>> ELSE Head(ss).data \o ConcatData(Tail(ss))

---------------------------------------------------------------------------
(* C1: with grouping enabled, on a fresh filter, k >= 1 above-threshold    *)
(* samples, then sample_group_delay below-threshold ones, then one more    *)
(* below-threshold one: nothing is returned by the first k + L calls, and  *)
(* call k + L + 1 returns a sample whose data is the concatenation of the  *)
(* first k + L samples' data in arrival order and whose gesture id is that *)
(* of sample k + L + 1.                                                    *)

C1_Shape(k) ==
    /\ NCalls = k + sample_group_delay + 1
    /\ \A i \in 1..k : Above(i)
    /\ \A i \in (k + 1)..NCalls : Below(i)

C1_BurstIsGrouped ==
    Grouping =>
        \A k \in 1..NCalls :
            C1_Shape(k) =>
                /\ \A i \in 1..(NCalls - 1) : ReturnedNothing(i)
                /\ events[NCalls] =
                       Return(Some(Sample(ConcatData(SubSeq(calls, 1, NCalls - 1)),
                                          calls[NCalls].gesture_id)))

C1_Witness ==
    /\ Grouping
    /\ sample_group_delay = 2
    /\ C1_Shape(2)
    /\ Flushed(NCalls)

---------------------------------------------------------------------------
(* C2 as stated: right after a call that flushed, the buffer is empty and  *)
(* the tolerance counter is 0.                                             *)

C2_CounterZeroAfterFlush ==
    (NCalls >= 1 /\ Flushed(NCalls)) =>
        /\ buffer = None
        /\ sample_group_delay_counter = 0

(* C2 amended: right after a call that flushed, the buffer is empty and    *)
(* the tolerance counter is what it was before the call, namely            *)
(* sample_group_delay; an above-threshold sample fed next is buffered on   *)
(* its own and resets the counter to 0.                                    *)

C2_AfterFlush ==
    \A i \in 1..NCalls :
        Flushed(i) =>
            /\ BufferAfter(i) = None
            /\ CounterAfter(i) = CounterBefore(i)
            /\ CounterAfter(i) = sample_group_delay
            /\ (i < NCalls /\ Above(i + 1)) =>
                   /\ BufferAfter(i + 1) = Some(calls[i + 1].data)
                   /\ CounterAfter(i + 1) = 0

C2_Witness ==
    /\ NCalls >= 2
    /\ Flushed(NCalls - 1)
    /\ Above(NCalls)
    /\ sample_group_delay >= 1
    /\ buffer = Some(calls[NCalls].data)

---------------------------------------------------------------------------
(* C3: with grouping enabled, if no sample fed to a fresh filter crosses   *)
(* the threshold, every call returns nothing and the buffer stays absent.  *)

C3_NoiseIsIgnored ==
    (Grouping /\ \A i \in 1..NCalls : Below(i)) =>
        /\ \A i \in 1..NCalls : ReturnedNothing(i)
        /\ buffer = None

---------------------------------------------------------------------------
(* C4: with grouping disabled, a call with a sample whose magnitude is at  *)
(* least the threshold returns that same sample.                           *)

C4_PassThrough ==
    (IsFilter /\ ~group) =>
        \A i \in 1..NCalls : Above(i) => events[i] = Return(Some(calls[i]))

C4_Witness ==
    /\ IsFilter /\ ~group
    /\ NCalls >= 2
    /\ Below(NCalls - 1)
    /\ Above(NCalls)
    /\ events[NCalls] = Return(Some(calls[NCalls]))

---------------------------------------------------------------------------
(* C5: with grouping disabled, a call with a sample whose magnitude is     *)
(* below the threshold returns nothing, whatever sample_group_delay is.    *)

C5_Suppressed ==
    (IsFilter /\ ~group) =>
        \A i \in 1..NCalls : Below(i) => ReturnedNothing(i)

C5_Witness ==
    /\ IsFilter /\ ~group
    /\ sample_group_delay >= 1
    /\ NCalls >= 2
    /\ Above(NCalls - 1)
    /\ Below(NCalls)
    /\ ReturnedNothing(NCalls)

---------------------------------------------------------------------------
(* C6: a grouped sample carries the gesture id of the sample passed to the *)
(* call that flushed, whatever the gesture ids of the buffered samples.    *)

C6_FlushGestureId ==
    \A i \in 1..NCalls :
        Flushed(i) => events[i].value[1].gesture_id = calls[i].gesture_id

C6_Witness ==
    \E i \in 2..NCalls :
        /\ Flushed(i)
        /\ calls[i].gesture_id # None
        /\ \A j \in 1..(i - 1) : calls[j].gesture_id # calls[i].gesture_id

---------------------------------------------------------------------------
(* C7: a call of the filter never raises and yields exactly one of         *)
(* pass-through (the sample itself), suppression (nothing) or flush (a new *)
(* sample made of the buffer as it was before the call); what it returns   *)
(* and the fields it leaves are determined by the configuration, the       *)
(* fields before the call and the sample.                                  *)

PassThroughAt(i) == events[i].value = Some(calls[i])

SuppressionAt(i) == events[i].value = None

FlushAt(i) ==
    /\ BufferBefore(i) # None
    /\ events[i].value =
           Some(Sample(BufferBefore(i)[1], calls[i].gesture_id))

---------------------------------------------------------------------------
(* C8: every call of DelayGrouperMiddleware.process_sample raises          *)
(* NotImplementedError, for every sample and after any earlier calls; it   *)
(* returns no value and leaves the configured delay as it is.              *)

C8_EveryCallRaised ==
    (mw = DelayGrouper) =>
        /\ Len(events) = NCalls
        /\ \A i \in 1..NCalls : events[i] = Raise("NotImplementedError")

C8_AlwaysRaises == [](C8_EveryCallRaised) /\ [][delay' = delay]_vars

C8_Witness ==
    /\ mw = DelayGrouper
    /\ NCalls >= 3
    /\ calls[1] # calls[2]
    /\ events[3].ev = "raise"

---------------------------------------------------------------------------
(* C9: every call of PlotterMiddleware.process_sample plots its sample     *)
(* exactly once and then returns that same sample.                         *)

C9_PlotThenReturn ==
    (mw = Plotter) =>
        /\ Len(events) = 2 * NCalls
        /\ \A i \in 1..NCalls :
            /\ events[2 * i - 1] = Plot(calls[i])
            /\ events[2 * i] = Return(Some(calls[i]))

C9_Witness ==
    /\ mw = Plotter
    /\ NCalls >= 2
    /\ calls[1] # calls[2]
    /\ events[3] = Plot(calls[2])
    /\ events[4] = Return(Some(calls[2]))

---------------------------------------------------------------------------
(* C10: with grouping enabled and the buffer non-empty, a call returns     *)
(* nothing and extends the buffer by its sample's data, unless its sample  *)
(* is below the threshold and the counter has reached sample_group_delay.  *)

C10_Step ==
    (/\ Grouping
     /\ buffer # None
     /\ NCalls' = NCalls + 1
     /\ ~(/\ ~MagnitudeAtLeastThreshold(calls'[NCalls + 1])
          /\ sample_group_delay_counter >= sample_group_delay))
    =>
    (/\ events'[NCalls + 1] = Return(None)
     /\ buffer' = Some(buffer[1] \o calls'[NCalls + 1].data))

C10_BufferPersists == [][C10_Step]_vars

C10_Witness ==
    /\ Grouping
    /\ NCalls >= 3
    /\ \A i \in 1..NCalls : ReturnedNothing(i)
    /\ Above(1) /\ Below(2) /\ Above(3)
    /\ buffer = Some(ConcatData(calls))

---------------------------------------------------------------------------
(* Vocabulary of the properties about groups *)

\* the i-th call accepted its sample: above the threshold, or below it
\* while the counter was under sample_group_delay (grouping enabled)
Accepted(i) ==
    \/ Above(i)
    \/ group /\ CounterBefore(i) < sample_group_delay

\* the last call before the j-th that flushed, 0 if there is none
RECURSIVE LastFlushBefore(_)
LastFlushBefore(j) ==
    IF j <= 1 THEN 0
    ELSE IF Flushed(j - 1) THEN j - 1
    ELSE LastFlushBefore(j - 1)

\* the data, in arrival order, of the samples accepted by calls lo..hi
RECURSIVE AcceptedData(_, _)
AcceptedData(lo, hi) ==
    IF lo > hi THEN <<>>
    ELSE IF Accepted(lo) THEN calls[lo].data \o AcceptedData(lo + 1, hi)
    ELSE AcceptedData(lo + 1, hi)

\* the data of the grouped sample the i-th call returned
OutputData(i) == events[i].value[1].data

\* the data of the grouped samples returned by calls lo..hi, in order
RECURSIVE EmittedData(_, _)
EmittedData(lo, hi) ==
    IF lo > hi THEN <<>>
    ELSE IF Flushed(lo) THEN OutputData(lo) \o EmittedData(lo + 1, hi)
    ELSE EmittedData(lo + 1, hi)

---------------------------------------------------------------------------
(* C11: in every state of the filter, after any calls and in every         *)
(* configuration with sample_group_delay >= 0, the tolerance counter is    *)
(* between 0 and sample_group_delay.                                       *)

C11_CounterInRange ==
    IsFilter =>
        /\ 0 <= sample_group_delay_counter
        /\ sample_group_delay_counter <= sample_group_delay

C11_Witness ==
    /\ Grouping
    /\ sample_group_delay >= 1
    /\ NCalls >= sample_group_delay + 2
    /\ CounterBefore(NCalls) = sample_group_delay
    /\ Below(NCalls)
    /\ sample_group_delay_counter = sample_group_delay

---------------------------------------------------------------------------
(* C12: the buffer is either absent or holds the non-empty concatenation,  *)
(* in arrival order, of the data of the samples accepted since the last    *)
(* flush (or since construction).                                          *)

C12_BufferContents ==
    IsFilter =>
        \/ buffer = None
        \/ /\ Len(buffer) = 1
           /\ buffer[1] # <<>>
           /\ buffer[1] =
                  AcceptedData(LastFlushBefore(NCalls + 1) + 1, NCalls)

C12_Witness ==
    /\ Grouping
    /\ LastFlushBefore(NCalls + 1) >= 1
    /\ NCalls >= LastFlushBefore(NCalls + 1) + 2
    /\ calls[NCalls].data # calls[NCalls - 1].data
    /\ buffer = Some(calls[NCalls - 1].data \o calls[NCalls].data)

---------------------------------------------------------------------------
(* C13: the buffer is absent at construction; a call takes the buffer from *)
(* present to absent if and only if it returns a grouped sample, and that  *)
(* sample's data is the buffer as it was before the call.                  *)

C13_ClearedExactlyOnFlush ==
    IsFilter =>
        /\ BufferBefore(1) = None
        /\ \A i \in 1..NCalls :
            /\ (BufferBefore(i) # None /\ BufferAfter(i) = None) <=> Flushed(i)
            /\ Flushed(i) => Some(OutputData(i)) = BufferBefore(i)

C13_Witness ==
    /\ NCalls >= 3
    /\ Flushed(NCalls)
    /\ Len(OutputData(NCalls)) >= 3
    /\ BufferBefore(NCalls) # None
    /\ buffer = None

---------------------------------------------------------------------------
(* C14: with grouping disabled, after any calls the buffer is still absent *)
(* and the tolerance counter is still 0.                                   *)

C14_NoStateWithoutGrouping ==
    (IsFilter /\ ~group) =>
        /\ buffer = None
        /\ sample_group_delay_counter = 0

C14_Witness ==
    /\ IsFilter /\ ~group
    /\ sample_group_delay >= 1
    /\ NCalls >= 3
    /\ Below(1) /\ Above(2) /\ Below(3)
    /\ buffer = None

---------------------------------------------------------------------------
(* C15: with grouping enabled, a call with an above-threshold sample       *)
(* returns nothing, sets the counter to 0 and appends the sample's data to *)
(* the end of the buffer (creating it if absent); so only a call with a    *)
(* below-threshold sample returns a sample.                                *)

C15_AboveIsBuffered ==
    Grouping =>
        \A i \in 1..NCalls :
            /\ Above(i) =>
                /\ ReturnedNothing(i)
                /\ CounterAfter(i) = 0
                /\ BufferAfter(i) =
                       Some((IF BufferBefore(i) = None THEN <<>>
                             ELSE BufferBefore(i)[1]) \o calls[i].data)
            /\ ~ReturnedNothing(i) => Below(i)

C15_Witness ==
    /\ Grouping
    /\ NCalls >= 3
    /\ Above(NCalls)
    /\ CounterBefore(NCalls) >= 1
    /\ BufferBefore(NCalls) # None
    /\ sample_group_delay_counter = 0
    /\ \E i \in 1..NCalls : Flushed(i)

---------------------------------------------------------------------------
(* C16: with grouping enabled, the data of the sample that triggers a      *)
(* flush is discarded: the flushing call does not accept its sample, the   *)
(* grouped sample it returns is made only of the samples accepted by the   *)
(* calls strictly between the previous flush and itself, and the buffer is *)
(* absent after it; so no output, then or later, holds that data.          *)

Rows(data) == { data[k] : k \in DOMAIN data }

C16_FlushingSampleDiscarded ==
    Grouping =>
        \A j \in 1..NCalls :
            Flushed(j) =>
                /\ ~Accepted(j)
                /\ BufferAfter(j) = None
                /\ OutputData(j) =
                       AcceptedData(LastFlushBefore(j) + 1, j - 1)

C16_Witness ==
    /\ Grouping
    /\ \E i, j \in 1..NCalls :
        /\ i < j
        /\ Flushed(i) /\ Flushed(j)
        /\ Rows(calls[i].data) \cap Rows(OutputData(i)) = {}
        /\ Rows(calls[i].data) \cap Rows(OutputData(j)) = {}

---------------------------------------------------------------------------
(* C17: with grouping enabled, after any calls, the data of the grouped    *)
(* samples emitted so far, in emission order, followed by the buffer       *)
(* contents, is the data of the accepted samples in arrival order.         *)

C17_NothingLostOrDuplicated ==
    Grouping =>
        EmittedData(1, NCalls) \o (IF buffer = None THEN <<>> ELSE buffer[1])
            = AcceptedData(1, NCalls)

C17_Witness ==
    /\ Grouping
    /\ NCalls >= 4
    /\ \E i \in 2..(NCalls - 1) : Flushed(i) /\ Len(OutputData(i)) >= 2
    /\ buffer # None
    /\ \E i \in 1..NCalls : ~Accepted(i)

---------------------------------------------------------------------------
(* C18: with grouping enabled, after a flush every below-threshold call    *)
(* returns nothing and leaves the buffer absent until an above-threshold   *)
(* sample arrives; two flushes are separated by an above-threshold sample, *)
(* and every grouped sample but the first starts with the data of the      *)
(* first above-threshold sample after the previous flush.                  *)

C18_QuietAfterFlush ==
    Grouping =>
        \A i \in 1..NCalls :
            Flushed(i) =>
                /\ \A m \in (i + 1)..NCalls :
                       (\A k \in (i + 1)..m : Below(k)) =>
                           /\ ReturnedNothing(m)
                           /\ BufferAfter(m) = None
                /\ \A j \in (i + 1)..NCalls :
                       (Flushed(j) /\ LastFlushBefore(j) = i) =>
                           \E k \in (i + 1)..(j - 1) :
                               /\ Above(k)
                               /\ \A m \in (i + 1)..(k - 1) : Below(m)
                               /\ Len(OutputData(j)) >= Len(calls[k].data)
                               /\ SubSeq(OutputData(j), 1, Len(calls[k].data))
                                      = calls[k].data

C18_Witness ==
    /\ Grouping
    /\ sample_group_delay >= 1
    /\ \E i \in 1..NCalls :
        /\ Flushed(i)
        /\ i + 2 <= NCalls
        /\ Below(i + 1)
        /\ ReturnedNothing(i + 1)
        /\ BufferAfter(i + 1) = None
        /\ Above(i + 2)

---------------------------------------------------------------------------
(* C19: with grouping enabled, from a state with the buffer present and    *)
(* counter c, a run of consecutive below-threshold samples returns nothing *)
(* for its first sample_group_delay - c samples and flushes on the next.   *)

C19_FlushAfterToleratedRun ==
    Grouping =>
        \A i \in 1..NCalls :
            BufferBefore(i) # None =>
                \A n \in 1..(NCalls - i + 1) :
                    (\A k \in i..(i + n - 1) : Below(k)) =>
                        /\ n <= sample_group_delay - CounterBefore(i)
                               => ReturnedNothing(i + n - 1)
                        /\ n = sample_group_delay - CounterBefore(i) + 1
                               => Flushed(i + n - 1)

C19_Witness ==
    /\ Grouping
    /\ sample_group_delay = 2
    /\ \E i \in 2..NCalls :
        /\ BufferBefore(i) # None
        /\ CounterBefore(i) = 1
        /\ i + 1 <= NCalls
        /\ Below(i) /\ Below(i + 1)
        /\ ReturnedNothing(i)
        /\ Flushed(i + 1)

---------------------------------------------------------------------------
(* C20: with grouping enabled, every flush happens with the counter equal  *)
(* to sample_group_delay, and the grouped sample's data ends with the data *)
(* of the sample_group_delay below-threshold samples fed just before,      *)
(* preceded by an above-threshold sample's data or by nothing.             *)

\* the last n elements of s
Suffix(s, n) == SubSeq(s, Len(s) - n + 1, Len(s))

ToleratedTail(j) ==
    ConcatData(SubSeq(calls, j - sample_group_delay, j - 1))

C20_FlushAtLimit ==
    Grouping =>
        \A j \in 1..NCalls :
            Flushed(j) =>
                /\ CounterBefore(j) = sample_group_delay
                /\ j > sample_group_delay
                /\ \A m \in (j - sample_group_delay)..(j - 1) : Below(m)
                /\ \/ OutputData(j) = ToleratedTail(j)
                   \/ LET a == j - sample_group_delay - 1
                      IN  /\ a >= 1
                          /\ Above(a)
                          /\ Len(OutputData(j)) >=
                                 Len(calls[a].data) + Len(ToleratedTail(j))
                          /\ Suffix(OutputData(j),
                                    Len(calls[a].data) + Len(ToleratedTail(j)))
                                 = calls[a].data \o ToleratedTail(j)

C20_Witness ==
    /\ Grouping
    /\ sample_group_delay = 2
    /\ NCalls >= 5
    /\ Flushed(NCalls)
    /\ Above(NCalls - 3) /\ Above(NCalls - 4)
    /\ OutputData(NCalls) # ToleratedTail(NCalls)

=============================================================================
